---- MODULE Spec2Model ----
(***************************************************************************)
(* Model of the binder build tooling (build.py): the staged installers,    *)
(* the two-pass llvm bootstrap and the ENVFILE written by the              *)
(* orchestrating MasterBinderInstaller.                                    *)
(*                                                                         *)
(* A Python str is a sequence of tokens: a token is a word (a TLA+ string  *)
(* holding no "/", "=", " " or newline) or one of the separators "/", "=", *)
(* " ", "\n".  f-string formatting and str + str are concatenation, so a   *)
(* file's content can be split into lines again.  Directory arguments are  *)
(* normalised absolute paths, for which Path(p) / "x" is p + "/" + "x".    *)
(***************************************************************************)
EXTENDS Integers, Sequences, FiniteSets, TLC

\* ---------------------------------------------------------------- bounds
MaxCalls == 2

\* ---------------------------------------------------------------- strings
NL == "\n"
SP == " "
EQ == "="
SLASH == "/"

Truthy(s) == s /= <<>>

RECURSIVE Join(_, _)
Join(strs, sep) ==
    IF strs = <<>> THEN <<>>
    ELSE IF Len(strs) = 1 THEN Head(strs)
    ELSE Head(strs) \o <<sep>> \o Join(Tail(strs), sep)

RECURSIVE IndexOf(_, _, _)
IndexOf(s, tok, i) ==
    IF i > Len(s) THEN 0
    ELSE IF s[i] = tok THEN i
    ELSE IndexOf(s, tok, i + 1)

RECURSIVE Split(_, _)
Split(s, sep) ==
    LET i == IndexOf(s, sep, 1) IN
    IF i = 0 THEN <<s>>
    ELSE <<SubSeq(s, 1, i - 1)>> \o Split(SubSeq(s, i + 1, Len(s)), sep)

PathJoin(p, name) == p \o <<SLASH, name>>

\* ---------------------------------------------------------------- module constants
SUPPORTED_PYBIND11_SHA == <<"32c4d7e17f267e10e71138a78d559b1eef17c909">>
ALLOWED_BUILD_MODES == {<<"Release">>, <<"Debug">>, <<"MinSizeRel">>, <<"RelWithDebInfo">>}
KNOWN_COMPILERS ==
    [c \in {<<"clang">>, <<"gcc">>} |->
        IF c = <<"clang">> THEN << <<"clang">>, <<"clang++">> >>
        ELSE << <<"gcc">>, <<"g++">> >>]
SUGGESTED_LLVM_RELEASE == <<"llvmorg-13.0.1">>
SUGGESTED_BINDER_BRANCH == <<"master">>

\* ---------------------------------------------------------------- CompileOptions
cmake_extra_commands_from_known_compiler_paths(full_cc, full_cpp, build_mode) ==
    LET cc   == IF Truthy(full_cc) THEN << <<"-DCMAKE_C_COMPILER", EQ>> \o full_cc >> ELSE <<>>
        cpp  == IF Truthy(full_cpp) THEN << <<"-DCMAKE_CXX_COMPILER", EQ>> \o full_cpp >> ELSE <<>>
        mode == IF Truthy(build_mode) THEN << <<"-DCMAKE_BUILD_TYPE", EQ>> \o build_mode >> ELSE <<>>
    IN Join(cc \o cpp \o mode, SP)

NoCompileOptions ==
    [ok |-> FALSE, build_mode |-> <<>>, compiler |-> <<>>, cc |-> <<>>, cpp |-> <<>>,
     cmake_extra_commands |-> <<>>]

\* faulty variant: the build mode is not validated
CompileOptions_any_build_mode(compiler, build_mode) ==
    IF compiler \notin DOMAIN KNOWN_COMPILERS THEN NoCompileOptions
    ELSE [ok |-> TRUE, build_mode |-> build_mode, compiler |-> compiler,
          cc |-> KNOWN_COMPILERS[compiler][1], cpp |-> KNOWN_COMPILERS[compiler][2],
          cmake_extra_commands |->
              cmake_extra_commands_from_known_compiler_paths(
                  KNOWN_COMPILERS[compiler][1], KNOWN_COMPILERS[compiler][2], build_mode)]

CompileOptions(compiler, build_mode) ==
    IF build_mode \notin ALLOWED_BUILD_MODES THEN NoCompileOptions
    ELSE IF compiler \notin DOMAIN KNOWN_COMPILERS THEN NoCompileOptions
    ELSE [ok |-> TRUE, build_mode |-> build_mode, compiler |-> compiler,
          cc |-> KNOWN_COMPILERS[compiler][1], cpp |-> KNOWN_COMPILERS[compiler][2],
          cmake_extra_commands |->
              cmake_extra_commands_from_known_compiler_paths(
                  KNOWN_COMPILERS[compiler][1], KNOWN_COMPILERS[compiler][2], build_mode)]

\* ---------------------------------------------------------------- VersionOrSourceLocation

\* faulty variant: the both-set test is missing
RejectBoth_never(version, source_location) == FALSE

\* ok = FALSE stands for the RuntimeError raised by __init__: no object exists.
RejectBoth(version, source_location) == Truthy(version) /\ Truthy(source_location)

RejectNeither(version, source_location) == ~Truthy(version) /\ ~Truthy(source_location)

VersionOrSourceLocation(version, source_location) ==
    IF RejectBoth(version, source_location)
    THEN [ok |-> FALSE, version |-> <<>>, source_location |-> <<>>]
    ELSE IF RejectNeither(version, source_location)
    THEN [ok |-> FALSE, version |-> <<>>, source_location |-> <<>>]
    ELSE [ok |-> TRUE, version |-> version, source_location |-> source_location]

\* faulty variant: the identity of a local source is the bare path
get_id_bare_path(vsl) ==
    IF Truthy(vsl.version) THEN vsl.version
    ELSE vsl.source_location

get_id(vsl) ==
    IF Truthy(vsl.version) THEN vsl.version
    ELSE <<"FROM_SOURCE_">> \o vsl.source_location

\* ---------------------------------------------------------------- inputs
BinderBranches == {<<>>, SUGGESTED_BINDER_BRANCH}
BinderSources == {<<>>, <<SLASH, "src", SLASH, "binder">>}
LLVMVersions == {<<>>, SUGGESTED_LLVM_RELEASE}
LLVMSources == {<<>>, <<SLASH, "src", SLASH, "llvm">>}
Pybind11Shas == {<<>>, SUPPORTED_PYBIND11_SHA}
Pybind11Sources == {<<>>, <<SLASH, "src", SLASH, "pb", EQ, "11">>}
BuildPaths == {<<SLASH, "tmp", SLASH, "build">>, <<SLASH, "b", EQ, "1">>}
Compilers == {<<"clang">>, <<"gcc">>, <<"icc">>}
BuildModes == {<<"Release">>, <<"Debug">>, <<"Fast">>}

ArgSpace ==
    [binder_branch : BinderBranches, binder_source : BinderSources,
     llvm_version : LLVMVersions, llvm_source : LLVMSources,
     pybind11_sha : Pybind11Shas, pybind11_source : Pybind11Sources,
     build_path : BuildPaths, compiler : Compilers, build_mode : BuildModes]

\* ---------------------------------------------------------------- state
VARIABLES
    args,         \* the argparse namespace handed to main
    mbi,          \* the MasterBinderInstaller built by main (ok = FALSE: not built)
    build_dir,    \* LLVMInstall.build_dir, the one attribute _install reassigns
    fs,           \* the directories and files the installers test and create
    envfile,      \* the file <build_path>/ENVFILE
    call,         \* the public method running: [obj, method, prepare_only]
    todo,         \* the statements of that call still to run, head first
    status,       \* "init", "ready", "running", "returned", "raised"
    log,          \* external effects of the current call, in order
    env_info,     \* the local env_info of MasterBinderInstaller._install
    ret,          \* the value returned by the last _install
    ncalls,       \* public calls started so far
    prepared_ok,  \* installers whose prepare() has returned without raising
    envfile0,     \* the ENVFILE as it was when the current call started
    prepared0,    \* prepared_ok as it was when the current call started
    configures    \* the cmake runs of this LLVMInstall object, in order: the build directory
                  \* and the compiler binary the names on the command line stood for

vars == <<args, mbi, build_dir, fs, envfile, call, todo, status, log, env_info, ret,
          ncalls, prepared_ok, envfile0, prepared0, configures>>

\* state of make_bindings_via_cmake.py (idle while build.py runs, and conversely)
VARIABLES
    gargs,        \* the argparse namespace of make_bindings_via_cmake.py
    gtree,        \* the files under the project source directories: name and lines
    gfiles,       \* all_project_source_files, in the order they were enumerated
    gout,         \* all_includes.hpp, <module>.sources and CMakeLists.txt
    gsources,     \* sources_to_compile, the list returned by make_bindings_code
    gtodo,        \* the stages of the run still to come, head first
    gstatus,      \* "idle", "running", "returned", "raised"
    glog          \* external effects of the run, in order

gvars == <<gargs, gtree, gfiles, gout, gsources, gtodo, gstatus, glog>>

NoGArgs ==
    [argv |-> <<>>, subparser |-> <<>>, module_name |-> <<>>, project_sources |-> <<>>,
     include_line_ignore_words |-> <<>>,
     preinstall_script |-> <<>>, custom_all_includes_file |-> <<>>]

NoLines == [exists |-> FALSE, lines |-> <<>>]

EmptyOutput == [all_includes |-> NoLines, manifest |-> NoLines, cmakelists |-> NoLines]

GenIdle ==
    /\ gargs = NoGArgs
    /\ gtree = {}
    /\ gfiles = <<>>
    /\ gout = EmptyOutput
    /\ gsources = <<>>
    /\ gtodo = <<>>
    /\ gstatus = "idle"
    /\ glog = <<>>

NoVSL == [ok |-> FALSE, version |-> <<>>, source_location |-> <<>>]

NoFile == [exists |-> FALSE, content |-> <<>>]

NoCall == [obj |-> "none", method |-> "none", prepare_only |-> FALSE]

\* what the path <base_source_directory>/include is after a copy or a checkout:
\* missing, a directory (is_dir() and exists()), or a regular file (exists() only)
IncludeKinds == {"absent", "dir", "file"}

\* ---------------------------------------------------------------- derived attributes
\* MasterBinderInstaller.__init__
binder_download_dir == PathJoin(args.build_path, "binder")

binder_source_directory ==
    IF Truthy(mbi.binder.version) THEN PathJoin(binder_download_dir, "source")
    ELSE PathJoin(mbi.binder.source_location, "source")

master_envfile == PathJoin(args.build_path, "ENVFILE")

\* LLVMInstall.__init__
llvm_base_source_directory == PathJoin(args.build_path, "llvm-project")

llvm_initial_build_dir == PathJoin(llvm_base_source_directory, "build")

llvm_build_bin_dir == PathJoin(llvm_initial_build_dir, "bin")

clang_tools_extra_subdir == PathJoin(llvm_base_source_directory, "clang-tools-extra")

clang_tools_extra_subdir_cmakelists == PathJoin(clang_tools_extra_subdir, "CMakeLists.txt")

binder_clang_tools_extra_subdir == PathJoin(clang_tools_extra_subdir, "binder")

\* Pybind11Installer.__init__
pybind11_base_source_directory == PathJoin(args.build_path, "pybind11")

pybind11_include_dir == PathJoin(pybind11_base_source_directory, "include")

\* ---------------------------------------------------------------- Init
Init ==
    /\ args \in ArgSpace
    /\ mbi = [ok |-> FALSE, binder |-> NoVSL, llvm |-> NoVSL, pybind11 |-> NoVSL,
              compiler |-> NoCompileOptions]
    /\ build_dir = <<>>
    /\ \E local_binder_has_source \in BOOLEAN :
         fs = [binder_dl |-> FALSE,
               binder_src |-> Truthy(args.binder_source) /\ local_binder_has_source,
               pb_dir |-> FALSE, pb_remote |-> FALSE, pb_include |-> "absent",
               llvm_dir |-> FALSE, llvm_binder |-> FALSE, llvm_patch |-> 0,
               ldconf |-> FALSE, configured |-> {}, installed |-> {}, clang_installed |-> FALSE]
    /\ envfile = NoFile
    /\ call = NoCall
    /\ todo = <<>>
    /\ status = "init"
    /\ log = <<>>
    /\ env_info = <<>>
    /\ ret = <<>>
    /\ ncalls = 0
    /\ prepared_ok = {}
    /\ envfile0 = NoFile
    /\ prepared0 = {}
    /\ configures = <<>>
    /\ GenIdle

\* ---------------------------------------------------------------- main: construction
\* main builds the three VersionOrSourceLocation objects, then the
\* MasterBinderInstaller (whose __init__ builds CompileOptions and the two
\* sub-installers).  Any RuntimeError ends the process before a method runs:
\* the first constructor that raises is the last one called, so the objects
\* after it are never built (they stay NoVSL / NoCompileOptions) and no
\* LLVMInstall, hence no build_dir, exists.
Construct ==
    /\ status \in {"init", "returned", "raised"}
    /\ status = "init" \/ (mbi.ok /\ ncalls < MaxCalls)
    /\ LET pb == VersionOrSourceLocation(args.pybind11_sha, args.pybind11_source)
           ll == IF pb.ok THEN VersionOrSourceLocation(args.llvm_version, args.llvm_source)
                 ELSE NoVSL
           bi == IF ll.ok THEN VersionOrSourceLocation(args.binder_branch, args.binder_source)
                 ELSE NoVSL
           co == IF bi.ok THEN CompileOptions(args.compiler, args.build_mode)
                 ELSE NoCompileOptions
           good == co.ok
       IN /\ mbi' = [ok |-> good, binder |-> bi, llvm |-> ll, pybind11 |-> pb, compiler |-> co]
          /\ status' = IF good THEN "ready" ELSE "raised"
          /\ build_dir' = IF good THEN llvm_initial_build_dir ELSE <<>>
    /\ call' = NoCall
    /\ todo' = <<>>
    /\ log' = <<>>
    /\ env_info' = <<>>
    /\ ret' = <<>>
    /\ envfile0' = envfile
    /\ prepared0' = prepared_ok
    /\ configures' = <<>>
    /\ UNCHANGED <<args, fs, envfile, ncalls, prepared_ok>>
    /\ UNCHANGED gvars

\* ---------------------------------------------------------------- method bodies
\* The statements of each method, in program order.  "pybind11._prepare" and
\* "llvm._prepare" start with a test and push the statements of the branch taken.
_run_ninja_build_and_install_command == <<"llvm.ninja", "llvm.ninja_install">>


\* faulty variant: ldconfig run after the second configure
LLVMInstall_install_ldconfig_late ==
    <<"llvm.cmake1">> \o _run_ninja_build_and_install_command
    \o <<"llvm.cmake2">> \o <<"llvm.ldconfig">> \o _run_ninja_build_and_install_command
    \o <<"llvm.return">>

LLVMInstall_install ==
    <<"llvm.cmake1">> \o _run_ninja_build_and_install_command \o <<"llvm.ldconfig">>
    \o <<"llvm.cmake2">> \o _run_ninja_build_and_install_command \o <<"llvm.return">>


\* faulty variant: the pybind11 staging call is left out
MasterBinderInstaller_prepare_skips_pybind11 == <<"master.git_clone", "llvm._prepare">>

MasterBinderInstaller_prepare == <<"master.git_clone", "pybind11._prepare", "llvm._prepare">>


\* faulty variant: the ENVFILE written before the bootstrap
MasterBinderInstaller_install_writes_early ==
    <<"pybind11._install", "master.env_info+=", "master.write_envfile">>
    \o LLVMInstall_install \o <<"master.env_info+=">>

MasterBinderInstaller_install ==
    <<"pybind11._install", "master.env_info+=">>
    \o LLVMInstall_install \o <<"master.env_info+=">>
    \o <<"master.write_envfile">>

Body(obj, meth) ==
    IF meth = "_prepare"
    THEN IF obj = "master" THEN MasterBinderInstaller_prepare
         ELSE IF obj = "llvm" THEN <<"llvm._prepare">>
         ELSE <<"pybind11._prepare">>
    ELSE IF obj = "master" THEN MasterBinderInstaller_install
         ELSE IF obj = "llvm" THEN LLVMInstall_install
         ELSE <<"pybind11._install">>

BaseInstaller_prepare(obj) == Body(obj, "_prepare")


\* faulty variant: _install() before _prepare()
BaseInstaller_install_reversed(obj) == Body(obj, "_install") \o Body(obj, "_prepare")

BaseInstaller_install(obj) == Body(obj, "_prepare") \o Body(obj, "_install")


\* faulty variant: the flag is ignored
main_method_always_install(prepare_only) == "install"

\* main: args.prepare_only selects mbi.prepare() or mbi.install()
main_method(prepare_only) == IF prepare_only THEN "prepare" ELSE "install"

Installers == {"master", "llvm", "pybind11"}

StartCall ==
    /\ mbi.ok
    /\ status \in {"ready", "returned", "raised"}
    /\ ncalls < MaxCalls
    /\ \E obj \in Installers, prepare_only \in BOOLEAN :
         LET meth == main_method(prepare_only) IN
         /\ call' = [obj |-> obj, method |-> meth, prepare_only |-> prepare_only]
         /\ todo' = IF meth = "prepare" THEN BaseInstaller_prepare(obj)
                    ELSE BaseInstaller_install(obj)
    /\ status' = "running"
    /\ log' = <<>>
    /\ env_info' = <<>>
    /\ ret' = <<>>
    /\ ncalls' = ncalls + 1
    /\ envfile0' = envfile
    /\ prepared0' = prepared_ok
    /\ UNCHANGED <<args, mbi, build_dir, fs, envfile, prepared_ok, configures>>
    /\ UNCHANGED gvars

\* ---------------------------------------------------------------- statement helpers
Calling(obj, meth) == call.obj = obj /\ call.method = meth

At(step) == status = "running" /\ todo /= <<>> /\ Head(todo) = step

Event(op, arg, dir, rc) == [op |-> op, arg |-> arg, dir |-> dir, rc |-> rc]


\* faulty variant: the return code is never looked at
Raises_never(rc) == FALSE

\* control after a statement: fall through to the next one, or raise RuntimeError
Raises(rc) == rc /= 0

Continue(pushed) ==
    /\ todo' = pushed \o Tail(todo)
    /\ status' = "running"

Raise ==
    /\ todo' = <<>>
    /\ status' = "raised"

After(rc) == IF Raises(rc) THEN Raise ELSE Continue(<<>>)

ReturnCodes == {0, 1}

\* shutil.copytree(src, dst): FileExistsError when dst exists; otherwise it
\* copies everything ("ok"), fails before creating dst ("nosrc"), or fails
\* after creating dst ("partial").
CopytreeOutcomes(dst_exists) == IF dst_exists THEN {"exists"} ELSE {"ok", "nosrc", "partial"}

CopytreeRc(outcome) == IF outcome = "ok" THEN 0 ELSE 1

CopytreeCreates(outcome) == outcome \in {"ok", "partial"}

\* ---------------------------------------------------------------- MasterBinderInstaller._prepare
\* the binder download: run only for a pinned branch
MasterGitClone ==
    /\ At("master.git_clone")
    /\ IF Truthy(mbi.binder.version)
       THEN \E rc \in ReturnCodes, has_source \in BOOLEAN :
              /\ log' = Append(log, Event("git clone", mbi.binder.version, binder_download_dir, rc))
              /\ fs' = IF rc = 0
                       THEN [fs EXCEPT !.binder_dl = TRUE, !.binder_src = fs.binder_src \/ has_source]
                       ELSE fs
              /\ After(rc)
       ELSE /\ Continue(<<>>)
            /\ UNCHANGED <<log, fs>>
    /\ UNCHANGED <<args, mbi, build_dir, envfile, call, env_info, ret, ncalls, prepared_ok, envfile0, prepared0, configures>>
    /\ UNCHANGED gvars

\* ---------------------------------------------------------------- Pybind11Installer._prepare
Pybind11GitCommands ==
    <<"pybind11.git_init", "pybind11.git_remote_add", "pybind11.git_fetch", "pybind11.git_checkout">>

\* MasterBinderInstaller._prepare calls the public prepare() of its two
\* sub-installers: when the statements of a sub-installer's _prepare end
\* inside a call on the master, that installer's prepare() has returned.
SubPrepare(obj, returns) ==
    prepared_ok' = IF returns /\ call.obj = "master" THEN prepared_ok \cup {obj} ELSE prepared_ok

\* the test of include_dir and, on the download branch, the mkdir
Pybind11Prepare ==
    /\ At("pybind11._prepare")
    /\ IF fs.pb_include = "dir"
       THEN /\ Continue(<<>>)
            /\ UNCHANGED <<fs, log>>
       ELSE IF Truthy(mbi.pybind11.source_location)
       THEN /\ Continue(<<"pybind11.copytree", "pybind11.check_include">>)
            /\ UNCHANGED <<fs, log>>
       ELSE /\ Continue(Pybind11GitCommands \o <<"pybind11.check_include">>)
            /\ fs' = [fs EXCEPT !.pb_dir = TRUE]
            /\ log' = Append(log, Event("mkdir", <<>>, pybind11_base_source_directory, 0))
    /\ SubPrepare("pybind11", fs.pb_include = "dir")
    /\ UNCHANGED <<args, mbi, build_dir, envfile, call, env_info, ret, ncalls, envfile0, prepared0, configures>>
    /\ UNCHANGED gvars

Pybind11Copytree ==
    /\ At("pybind11.copytree")
    /\ \E outcome \in CopytreeOutcomes(fs.pb_dir), inc \in IncludeKinds :
         /\ log' = Append(log, Event("copytree", mbi.pybind11.source_location,
                                     pybind11_base_source_directory, CopytreeRc(outcome)))
         /\ fs' = IF CopytreeCreates(outcome)
                  THEN [fs EXCEPT !.pb_dir = TRUE, !.pb_include = inc]
                  ELSE fs
         /\ After(CopytreeRc(outcome))
    /\ UNCHANGED <<args, mbi, build_dir, envfile, call, env_info, ret, ncalls, prepared_ok, envfile0, prepared0, configures>>
    /\ UNCHANGED gvars

GitOp(step) ==
    IF step = "pybind11.git_init" THEN "git init"
    ELSE IF step = "pybind11.git_remote_add" THEN "git remote add"
    ELSE IF step = "pybind11.git_fetch" THEN "git fetch"
    ELSE "git checkout"

\* one iteration of the loop over the four git commands
Pybind11Git ==
    /\ status = "running" /\ todo /= <<>>
    /\ \E i \in 1..Len(Pybind11GitCommands) : Head(todo) = Pybind11GitCommands[i]
    /\ \E rc \in ReturnCodes, inc \in IncludeKinds :
         LET step == Head(todo) IN
         /\ step /= "pybind11.git_checkout" => inc = "absent"
         /\ log' = Append(log, Event(GitOp(step),
                                     IF step = "pybind11.git_fetch" THEN mbi.pybind11.version ELSE <<>>,
                                     pybind11_base_source_directory, rc))
         /\ fs' = IF rc /= 0 THEN fs
                  ELSE IF step = "pybind11.git_remote_add" THEN [fs EXCEPT !.pb_remote = TRUE]
                  ELSE IF step = "pybind11.git_checkout" THEN [fs EXCEPT !.pb_include = inc]
                  ELSE fs
         /\ After(rc)
    /\ UNCHANGED <<args, mbi, build_dir, envfile, call, env_info, ret, ncalls, prepared_ok, envfile0, prepared0, configures>>
    /\ UNCHANGED gvars

\* if not Path(self.include_dir).exists(): raise
\* faulty variant: the include directory is not tested after the download
IncludeDirMissing_never == FALSE

\* not Path(self.include_dir).exists()
IncludeDirMissing == fs.pb_include = "absent"

Pybind11CheckInclude ==
    /\ At("pybind11.check_include")
    /\ IF IncludeDirMissing THEN Raise ELSE Continue(<<>>)
    /\ SubPrepare("pybind11", ~IncludeDirMissing)
    /\ UNCHANGED <<args, mbi, build_dir, fs, envfile, call, log, env_info, ret, ncalls,
                   envfile0, prepared0, configures>>
    /\ UNCHANGED gvars

\* ---------------------------------------------------------------- LLVMInstall._prepare
\* faulty variant: the binder source directory is not tested
BinderSourceMissing_never == FALSE

\* not Path(self.binder_source_directory).is_dir()
BinderSourceMissing == ~fs.binder_src

LLVMSourcePresent == fs.llvm_dir

LLVMPrepare ==
    /\ At("llvm._prepare")
    /\ IF BinderSourceMissing THEN Raise
       ELSE IF LLVMSourcePresent THEN Continue(<<>>)
       ELSE Continue(<<IF Truthy(mbi.llvm.source_location) THEN "llvm.copytree" ELSE "llvm.git_clone",
                       "llvm.copytree_binder", "llvm.patch_cmakelists">>)
    /\ SubPrepare("llvm", ~BinderSourceMissing /\ LLVMSourcePresent)
    /\ UNCHANGED <<args, mbi, build_dir, fs, envfile, call, log, env_info, ret, ncalls,
                   envfile0, prepared0, configures>>
    /\ UNCHANGED gvars

\* what a copied or cloned toolchain tree holds of the two things _prepare
\* adds afterwards: clang-tools-extra/binder, and the number of
\* add_subdirectory(binder) lines in clang-tools-extra/CMakeLists.txt (a tree
\* an earlier run prepared has one)
DeliveredTrees == [binder : BOOLEAN, patch : {0, 1}]

LLVMCopytree ==
    /\ At("llvm.copytree")
    /\ \E outcome \in CopytreeOutcomes(fs.llvm_dir), tree \in DeliveredTrees :
         /\ log' = Append(log, Event("copytree", mbi.llvm.source_location,
                                     llvm_base_source_directory, CopytreeRc(outcome)))
         /\ fs' = IF CopytreeCreates(outcome)
                  THEN [fs EXCEPT !.llvm_dir = TRUE, !.llvm_binder = tree.binder,
                                  !.llvm_patch = tree.patch]
                  ELSE fs
         /\ After(CopytreeRc(outcome))
    /\ UNCHANGED <<args, mbi, build_dir, envfile, call, env_info, ret, ncalls, prepared_ok, envfile0, prepared0, configures>>
    /\ UNCHANGED gvars

LLVMGitClone ==
    /\ At("llvm.git_clone")
    /\ \E rc \in ReturnCodes, tree \in DeliveredTrees :
         /\ log' = Append(log, Event("git clone", mbi.llvm.version, llvm_base_source_directory, rc))
         /\ fs' = IF rc = 0
                  THEN [fs EXCEPT !.llvm_dir = TRUE, !.llvm_binder = tree.binder,
                                  !.llvm_patch = tree.patch]
                  ELSE fs
         /\ After(rc)
    /\ UNCHANGED <<args, mbi, build_dir, envfile, call, env_info, ret, ncalls, prepared_ok, envfile0, prepared0, configures>>
    /\ UNCHANGED gvars

LLVMCopytreeBinder ==
    /\ At("llvm.copytree_binder")
    /\ \E outcome \in CopytreeOutcomes(fs.llvm_binder) :
         /\ log' = Append(log, Event("copytree", binder_source_directory,
                                     binder_clang_tools_extra_subdir, CopytreeRc(outcome)))
         /\ fs' = IF CopytreeCreates(outcome) THEN [fs EXCEPT !.llvm_binder = TRUE] ELSE fs
         /\ After(CopytreeRc(outcome))
    /\ UNCHANGED <<args, mbi, build_dir, envfile, call, env_info, ret, ncalls, prepared_ok, envfile0, prepared0, configures>>
    /\ UNCHANGED gvars

\* appends "add_subdirectory(binder)" to clang-tools-extra/CMakeLists.txt
LLVMPatchCMakeLists ==
    /\ At("llvm.patch_cmakelists")
    /\ log' = Append(log, Event("append", <<"add_subdirectory(binder)">>,
                                clang_tools_extra_subdir_cmakelists, 0))
    /\ fs' = [fs EXCEPT !.llvm_patch = @ + 1]
    /\ Continue(<<>>)
    /\ SubPrepare("llvm", TRUE)
    /\ UNCHANGED <<args, mbi, build_dir, envfile, call, env_info, ret, ncalls, envfile0, prepared0, configures>>
    /\ UNCHANGED gvars

\* ---------------------------------------------------------------- LLVMInstall._install
InstallFrame == <<args, mbi, envfile, call, env_info, ret, ncalls, prepared_ok, envfile0, prepared0>>

\* -DCMAKE_C_COMPILER / -DCMAKE_CXX_COMPILER are given as bare command names,
\* which cmake looks up along PATH.  Once a clang has been installed by
\* "ninja install-clang" (also by a run that failed at a later target) the
\* name clang stands for that binary when its
\* directory comes first on PATH ("just-built"), and for another clang of the
\* machine otherwise ("other"); gcc is never built here.
CompilersOnPath(cc) ==
    IF cc = <<"clang">> /\ fs.clang_installed THEN {"just-built", "other"} ELSE {"other"}

\* _run_llvm_cmake_base_command(self.compiler.cmake_extra_commands)
LLVMCmake1 ==
    /\ At("llvm.cmake1")
    /\ \E rc \in ReturnCodes :
         /\ log' = Append(log, Event("cmake", mbi.compiler.cmake_extra_commands, build_dir, rc))
         /\ fs' = IF rc = 0 THEN [fs EXCEPT !.configured = @ \cup {build_dir}] ELSE fs
         /\ After(rc)
    /\ \E found \in CompilersOnPath(mbi.compiler.cc) :
         configures' = Append(configures, [dir |-> build_dir, compiler |-> found])
    /\ UNCHANGED build_dir
    /\ UNCHANGED InstallFrame
    /\ UNCHANGED gvars

\* first command of _run_ninja_build_and_install_command: ninja -j N
LLVMNinja ==
    /\ At("llvm.ninja")
    /\ \E rc \in ReturnCodes :
         /\ log' = Append(log, Event("ninja", <<>>, build_dir, rc))
         /\ After(rc)
    /\ UNCHANGED <<build_dir, fs>>
    /\ UNCHANGED InstallFrame
    /\ UNCHANGED configures
    /\ UNCHANGED gvars

\* second command: ninja install-clang-resource-headers install-cxx ... -j N
LLVMNinjaInstall ==
    /\ At("llvm.ninja_install")
    /\ \E rc \in ReturnCodes, clang_put \in BOOLEAN :
         \* a failing run may have finished the install-clang target before it failed
         /\ rc = 0 => clang_put
         /\ log' = Append(log, Event("ninja install", <<>>, build_dir, rc))
         /\ fs' = [fs EXCEPT !.installed = IF rc = 0 THEN @ \cup {build_dir} ELSE @,
                             !.clang_installed = @ \/ clang_put]
         /\ After(rc)
    /\ UNCHANGED build_dir
    /\ UNCHANGED InstallFrame
    /\ UNCHANGED configures
    /\ UNCHANGED gvars

ld_so_conf == <<SLASH, "etc", SLASH, "ld.so.conf.d", SLASH, "libc2.conf">>

\* _setup_ldconfig_path: write the conf file, then run ldconfig.  The open()
\* of a file under /etc raises OSError when the directory cannot be written
\* (read-only mount, caller not root): nothing is written and ldconfig is
\* not run.
LLVMLdconfig ==
    /\ At("llvm.ldconfig")
    /\ \/ /\ log' = Append(log, Event("write", <<>>, ld_so_conf, 1))
          /\ fs' = fs
          /\ Raise
       \/ \E rc \in ReturnCodes :
          /\ log' = log \o <<Event("write", <<>>, ld_so_conf, 0),
                              Event("ldconfig", <<>>, build_dir, rc)>>
          /\ fs' = [fs EXCEPT !.ldconf = TRUE]
          /\ After(rc)
    /\ UNCHANGED build_dir
    /\ UNCHANGED InstallFrame
    /\ UNCHANGED configures
    /\ UNCHANGED gvars

\* self.build_dir = self.build_dir + "2", then the second configure with the
\* compiler names clang / clang++
\* self.build_dir = self.build_dir + "2"
second_pass_build_dir(dir) == dir \o <<"2">>

LLVMCmake2 ==
    /\ At("llvm.cmake2")
    /\ build_dir' = second_pass_build_dir(build_dir)
    /\ \E found \in CompilersOnPath(<<"clang">>) :
         configures' = Append(configures, [dir |-> build_dir', compiler |-> found])
    /\ \E rc \in ReturnCodes :
         /\ log' = Append(log, Event("cmake",
                cmake_extra_commands_from_known_compiler_paths(<<"clang">>, <<"clang++">>,
                                                               mbi.compiler.build_mode),
                build_dir', rc))
         /\ fs' = IF rc = 0 THEN [fs EXCEPT !.configured = @ \cup {build_dir'}] ELSE fs
         /\ After(rc)
    /\ UNCHANGED InstallFrame
    /\ UNCHANGED gvars

\* return ["LLVM_BIN_DIR={self.build_bin_dir}", "LLVM_VERSION={self.version}"]
\* The literals are not f-strings: the braces are written as they stand.
LLVMInstall_return ==
    << <<"LLVM_BIN_DIR", EQ, "{self.build_bin_dir}">>,
       <<"LLVM_VERSION", EQ, "{self.version}">> >>

LLVMReturn ==
    /\ At("llvm.return")
    /\ ret' = LLVMInstall_return
    /\ Continue(<<>>)
    /\ UNCHANGED <<args, mbi, build_dir, fs, envfile, call, log, env_info, ncalls,
                   prepared_ok, envfile0, prepared0, configures>>
    /\ UNCHANGED gvars

\* ---------------------------------------------------------------- Pybind11Installer._install
Pybind11Installer_install ==
    << <<"PYBIND11_INCLUDE_DIR", EQ>> \o pybind11_include_dir,
       <<"PYBIND11_SHA", EQ>> \o get_id(mbi.pybind11) >>

Pybind11Install ==
    /\ At("pybind11._install")
    /\ ret' = Pybind11Installer_install
    /\ Continue(<<>>)
    /\ UNCHANGED <<args, mbi, build_dir, fs, envfile, call, log, env_info, ncalls,
                   prepared_ok, envfile0, prepared0, configures>>
    /\ UNCHANGED gvars

\* ---------------------------------------------------------------- MasterBinderInstaller._install
\* env_info += <installer>._install()
MasterAccumulate ==
    /\ At("master.env_info+=")
    /\ env_info' = env_info \o ret
    /\ Continue(<<>>)
    /\ UNCHANGED <<args, mbi, build_dir, fs, envfile, call, log, ret, ncalls,
                   prepared_ok, envfile0, prepared0, configures>>
    /\ UNCHANGED gvars


\* faulty variant: " ".join instead of "\n".join
EnvfileText_spaces(lines) == Join(lines, SP)

EnvfileText(lines) == Join(lines, NL)

\* with open(self.envfile, "w") as fh: fh.write("\n".join(env_info))
MasterWriteEnvfile ==
    /\ At("master.write_envfile")
    /\ envfile' = [exists |-> TRUE, content |-> EnvfileText(env_info)]
    /\ log' = Append(log, Event("write", <<>>, master_envfile, 0))
    /\ Continue(<<>>)
    /\ UNCHANGED <<args, mbi, build_dir, fs, call, env_info, ret, ncalls, prepared_ok, envfile0, prepared0, configures>>
    /\ UNCHANGED gvars

\* ---------------------------------------------------------------- return of the public method
Finish ==
    /\ status = "running"
    /\ todo = <<>>
    /\ status' = "returned"
    /\ prepared_ok' = IF call.method = "prepare" THEN prepared_ok \cup {call.obj} ELSE prepared_ok
    /\ UNCHANGED <<args, mbi, build_dir, fs, envfile, call, todo, log, env_info, ret, ncalls,
                   envfile0, prepared0, configures>>
    /\ UNCHANGED gvars

\* ---------------------------------------------------------------- specification
Next ==
    \/ Construct
    \/ StartCall
    \/ MasterGitClone
    \/ Pybind11Prepare
    \/ Pybind11Copytree
    \/ Pybind11Git
    \/ Pybind11CheckInclude
    \/ LLVMPrepare
    \/ LLVMCopytree
    \/ LLVMGitClone
    \/ LLVMCopytreeBinder
    \/ LLVMPatchCMakeLists
    \/ LLVMCmake1
    \/ LLVMNinja
    \/ LLVMNinjaInstall
    \/ LLVMLdconfig
    \/ LLVMCmake2
    \/ LLVMReturn
    \/ Pybind11Install
    \/ MasterAccumulate
    \/ MasterWriteEnvfile
    \/ Finish

Spec == Init /\ [][Next]_vars

TypeOK ==
    /\ status \in {"init", "ready", "running", "returned", "raised"}
    /\ ncalls \in 0..MaxCalls
    /\ fs.llvm_patch \in 0..2

\* ---------------------------------------------------------------- observations used by the properties
ToolchainOps == {"cmake", "ninja", "ninja install", "ldconfig"}

StagingOps == {"git clone", "copytree", "mkdir", "git init", "git remote add", "git fetch",
               "git checkout", "append"}

IsToolchain(e) == e.op \in ToolchainOps

IsStaging(e) == e.op \in StagingOps

IsWrite(e) == e.op = "write" /\ e.dir = master_envfile

ToolchainLog == SelectSeq(log, IsToolchain)

OpsOf(events) == [i \in 1..Len(events) |-> events[i].op]

PrepareSteps ==
    {"master.git_clone", "pybind11._prepare", "pybind11.copytree", "pybind11.check_include",
     "llvm._prepare", "llvm.copytree", "llvm.git_clone", "llvm.copytree_binder",
     "llvm.patch_cmakelists"}
    \cup {Pybind11GitCommands[i] : i \in 1..Len(Pybind11GitCommands)}

\* a line KEY=VALUE is cut at its first "="
KeyOf(line) == SubSeq(line, 1, IndexOf(line, EQ, 1) - 1)

ValueOf(line) == SubSeq(line, IndexOf(line, EQ, 1) + 1, Len(line))

EnvfileLines == Split(envfile.content, NL)

LinesWithKey(lines, key) == {i \in 1..Len(lines) : KeyOf(lines[i]) = key}

MasterInstallReturned == status = "returned" /\ Calling("master", "install")

\* ---------------------------------------------------------------- C1
\* C1: in every run of MasterBinderInstaller.install(), when the first cmake
\* configure is about to run or has run, the binder source directory is a
\* directory and the pybind11 include path exists (the test _prepare applies).
C1_StagedBeforeConfigure ==
    (Calling("master", "install")
        /\ (At("llvm.cmake1") \/ \E i \in 1..Len(log) : log[i].op = "cmake"))
    => (fs.binder_src /\ fs.pb_include /= "absent")

W1_ConfigureAfterBothStaged ==
    /\ Calling("master", "install")
    /\ \E i, j, k \in 1..Len(log) :
         /\ i < j /\ j < k
         /\ log[i].op = "git clone" /\ log[i].dir = binder_download_dir
         /\ log[j].op = "git checkout"
         /\ log[k].op = "cmake"

\* ---------------------------------------------------------------- C2
\* C2: a successful LLVMInstall._install() has run exactly configure, build,
\* install, ldconfig in the first build directory and then configure, build,
\* install in the second, each with exit status 0 and nothing else in between.
C2_BootstrapOrder ==
    (status = "returned" /\ call.method = "install" /\ call.obj \in {"llvm", "master"})
    => /\ OpsOf(ToolchainLog) =
            <<"cmake", "ninja", "ninja install", "ldconfig", "cmake", "ninja", "ninja install">>
       /\ \A i \in 1..Len(ToolchainLog) : ToolchainLog[i].rc = 0
       /\ \A i \in 1..4 : ToolchainLog[i].dir \o <<"2">> = build_dir
       /\ \A i \in 5..7 : ToolchainLog[i].dir = build_dir

W2_BootstrapCompleted ==
    /\ status = "returned"
    /\ Calling("llvm", "install")
    /\ Len(ToolchainLog) = 7

\* ---------------------------------------------------------------- C3
\* C3: a configure, build, install or ldconfig command that exits non-zero is
\* the last external effect of the run: the call has raised, no llvm
\* contribution was returned and the ENVFILE was not written.
C3_BootstrapStepFailureAborts ==
    \A i \in 1..Len(log) :
        (IsToolchain(log[i]) /\ log[i].rc /= 0)
        => /\ i = Len(log)
           /\ status = "raised"
           /\ todo = <<>>
           /\ ret /= LLVMInstall_return
           /\ \A k \in 1..Len(env_info) : env_info[k] /= LLVMInstall_return[1]
           /\ \A k \in 1..Len(log) : ~IsWrite(log[k])
           /\ envfile = envfile0

W3_PassOneFailureInMasterInstall ==
    /\ Calling("master", "install")
    /\ status = "raised"
    /\ Len(ToolchainLog) = 3
    /\ ToolchainLog[3].op = "ninja install"
    /\ ToolchainLog[3].rc /= 0

\* ---------------------------------------------------------------- C4
\* C4: a prepare() on an installer whose earlier prepare() returned without
\* raising performs no clone, fetch or copy and does not raise.
X4_SecondPrepareIsNoOp ==
    (call.method = "prepare" /\ call.obj \in prepared0)
    => /\ status /= "raised"
       /\ \A i \in 1..Len(log) : ~IsStaging(log[i])

\* ---------------------------------------------------------------- C5
InstallBegun ==
    ret /= <<>> \/ \E i \in 1..Len(log) : IsToolchain(log[i]) \/ IsWrite(log[i])

PreparedState(obj) ==
    /\ obj \in {"pybind11", "master"} => fs.pb_include /= "absent"
    /\ obj \in {"llvm", "master"} => (fs.binder_src /\ fs.llvm_dir)

\* C5: in an install() call, once _install() has begun (a value was returned by
\* an _install, or a toolchain command or the ENVFILE write has run), _prepare()
\* has run to its end without a failure: every staging effect of the call
\* succeeded and precedes every install effect, what _prepare() establishes
\* holds, and no statement of _prepare() is still to run.
C5_InstallOnlyAfterPrepare ==
    (call.method = "install" /\ InstallBegun)
    => /\ \A i \in 1..Len(log) : IsStaging(log[i]) => log[i].rc = 0
       /\ \A i, j \in 1..Len(log) :
            (IsStaging(log[j]) /\ (IsToolchain(log[i]) \/ IsWrite(log[i]))) => j < i
       /\ PreparedState(call.obj)
       /\ \A k \in 1..Len(todo) : todo[k] \notin PrepareSteps

W5_InstalledThroughPrepared ==
    /\ status = "returned"
    /\ Calling("llvm", "install")
    /\ \E i, j \in 1..Len(log) : i < j /\ log[i].op = "append" /\ log[j].op = "cmake"

\* ---------------------------------------------------------------- C6
\* C6: while and after main runs with --prepare-only (mbi.prepare()), no
\* configure, build, install or ldconfig command has run and the ENVFILE has
\* not been written, whether the call returns or raises.
C6_PrepareOnlySkipsInstall ==
    (call.obj = "master" /\ call.prepare_only)
    => /\ \A i \in 1..Len(log) : ~IsToolchain(log[i]) /\ ~IsWrite(log[i])
       /\ envfile = envfile0
       /\ ret = <<>>

W6_PrepareOnlyRan ==
    /\ call.obj = "master" /\ call.prepare_only
    /\ status = "returned"
    /\ \E i \in 1..Len(log) : log[i].op = "append"

\* ---------------------------------------------------------------- C7
Contributions == Pybind11Installer_install \o LLVMInstall_return

\* C7: after a successful orchestrated install, each line returned by
\* Pybind11Installer._install and by LLVMInstall._install has its key on
\* exactly one line of the ENVFILE, that line carries the returned value, and
\* the four returned keys are pairwise different.
C7_EveryKeyOnceWithItsValue ==
    MasterInstallReturned
    => /\ envfile.exists
       /\ \A c \in 1..Len(Contributions) :
            /\ Cardinality(LinesWithKey(EnvfileLines, KeyOf(Contributions[c]))) = 1
            /\ \A i \in LinesWithKey(EnvfileLines, KeyOf(Contributions[c])) :
                 ValueOf(EnvfileLines[i]) = ValueOf(Contributions[c])
       /\ \A c, d \in 1..Len(Contributions) :
            KeyOf(Contributions[c]) = KeyOf(Contributions[d]) => c = d

W7_DescriptorWritten ==
    /\ MasterInstallReturned
    /\ Len(EnvfileLines) = 4
    /\ args.build_path = <<SLASH, "b", EQ, "1">>

\* ---------------------------------------------------------------- C8
EnvValue(key) ==
    LET i == CHOOSE i \in LinesWithKey(EnvfileLines, key) : TRUE IN ValueOf(EnvfileLines[i])

\* C8: after a successful orchestrated install into build path B, the ENVFILE
\* records the toolchain's binary directory under LLVM_BIN_DIR,
\* B/pybind11/include under PYBIND11_INCLUDE_DIR, and the resolved version
\* identifiers under LLVM_VERSION and PYBIND11_SHA.
X8_DescriptorHoldsResolvedPaths ==
    MasterInstallReturned
    => /\ \A key \in {<<"LLVM_BIN_DIR">>, <<"PYBIND11_INCLUDE_DIR">>, <<"LLVM_VERSION">>,
                      <<"PYBIND11_SHA">>} : LinesWithKey(EnvfileLines, key) /= {}
       /\ EnvValue(<<"PYBIND11_INCLUDE_DIR">>)
            = args.build_path \o <<SLASH, "pybind11", SLASH, "include">>
       /\ EnvValue(<<"PYBIND11_SHA">>) = get_id(mbi.pybind11)
       /\ EnvValue(<<"LLVM_BIN_DIR">>) = llvm_build_bin_dir
       /\ EnvValue(<<"LLVM_VERSION">>) = get_id(mbi.llvm)

\* ---------------------------------------------------------------- C9
WriteIndexes == {i \in 1..Len(log) : IsWrite(log[i])}

\* C9: a run writes the ENVFILE at most once; the write is the last external
\* effect of MasterBinderInstaller.install(), it comes after the seven
\* successful commands of the bootstrap, and the file's lines are the pybind11
\* contributions followed by the llvm contributions.  A run without a write,
\* in particular one that raised, leaves the ENVFILE as it found it.
C9_DescriptorWrittenOnceAtEnd ==
    /\ Cardinality(WriteIndexes) <= 1
    /\ \A i \in WriteIndexes :
         /\ Calling("master", "install")
         /\ i = Len(log)
         /\ status /= "raised"
         /\ Len(ToolchainLog) = 7
         /\ \A k \in 1..7 : ToolchainLog[k].rc = 0
         /\ log[i].dir = args.build_path \o <<SLASH, "ENVFILE">>
         /\ envfile.exists
         /\ EnvfileLines = Pybind11Installer_install \o LLVMInstall_return
    /\ WriteIndexes = {} => envfile = envfile0
    /\ status = "raised" => (WriteIndexes = {} /\ envfile = envfile0)

W9_RaiseLeavesEarlierDescriptor ==
    /\ status = "raised"
    /\ Calling("master", "install")
    /\ envfile.exists
    /\ \E i \in 1..Len(log) : IsToolchain(log[i])

\* ---------------------------------------------------------------- C10
ExactlyOne(version, source_location) ==
    (version /= <<>> /\ source_location = <<>>) \/ (version = <<>> /\ source_location /= <<>>)

ConstructedAs(vsl, version, source_location) ==
    /\ vsl.ok <=> ExactlyOne(version, source_location)
    /\ vsl.ok => (vsl.version = version /\ vsl.source_location = source_location)
    /\ ~vsl.ok => vsl = NoVSL

\* C10: for each (version, source_location) pair handed to
\* VersionOrSourceLocation, an object is produced exactly when one of the two
\* is non-empty and the other empty; the object then holds the pair, and in
\* the other cases none is produced.  main hands over the llvm pair once the
\* pybind11 object exists and the binder pair once the llvm object exists.
C10_ExactlyOneOfVersionAndSource ==
    status /= "init"
    => /\ ConstructedAs(mbi.pybind11, args.pybind11_sha, args.pybind11_source)
       /\ (mbi.pybind11.ok => ConstructedAs(mbi.llvm, args.llvm_version, args.llvm_source))
       /\ (mbi.llvm.ok => ConstructedAs(mbi.binder, args.binder_branch, args.binder_source))

W10_TwoBuiltThirdRejected ==
    /\ status = "raised"
    /\ ~mbi.ok
    /\ args.pybind11_sha /= <<>> /\ args.pybind11_source = <<>> /\ mbi.pybind11.ok
    /\ args.llvm_version = <<>> /\ args.llvm_source /= <<>> /\ mbi.llvm.ok
    /\ args.binder_branch /= <<>> /\ args.binder_source /= <<>> /\ ~mbi.binder.ok

\* ---------------------------------------------------------------- C18
CmakeLog == SelectSeq(log, LAMBDA e : e.op = "cmake")

\* the compiler arguments of a configure command, written out
CompilerArguments(cc, cxx, mode) ==
    <<"-DCMAKE_C_COMPILER", "=">> \o cc \o <<" ", "-DCMAKE_CXX_COMPILER", "=">> \o cxx
    \o <<" ", "-DCMAKE_BUILD_TYPE", "=">> \o mode

SystemPair == IF args.compiler = <<"gcc">> THEN << <<"gcc">>, <<"g++">> >>
              ELSE << <<"clang">>, <<"clang++">> >>

\* C18 as stated, within one installer object: once the second bootstrap
\* pass has been configured, its build directory differs from the first
\* pass's and from every directory the object configured before, its compiler
\* pair is the just-built clang/clang++ whatever family the caller selected,
\* and its build mode is the caller's; the first pass was configured with the
\* selected family's pair and the same build mode.
X18_SecondPassUsesJustBuiltCompiler ==
    /\ Len(CmakeLog) >= 1
         => CmakeLog[1].arg = CompilerArguments(SystemPair[1], SystemPair[2], args.build_mode)
    /\ Len(CmakeLog) >= 2
         => /\ CmakeLog[2].dir /= CmakeLog[1].dir
            /\ CmakeLog[2].dir = configures[Len(configures)].dir
            /\ \A i \in 1..(Len(configures) - 1) : configures[i].dir /= CmakeLog[2].dir
            /\ CmakeLog[2].arg = CompilerArguments(<<"clang">>, <<"clang++">>, args.build_mode)
            /\ configures[Len(configures)].compiler = "just-built"

\* ---------------------------------------------------------------- C19
ValidConfiguration ==
    /\ args.compiler \in {<<"clang">>, <<"gcc">>}
    /\ args.build_mode \in {<<"Release">>, <<"Debug">>, <<"MinSizeRel">>, <<"RelWithDebInfo">>}

NothingDone ==
    /\ log = <<>>
    /\ ncalls = 0
    /\ ~fs.binder_dl /\ ~fs.pb_dir /\ ~fs.llvm_dir /\ ~fs.llvm_binder
    /\ fs.configured = {} /\ fs.installed = {}
    /\ ~envfile.exists

\* C19: once main has run the constructors, a compiler family outside
\* {clang, gcc} or a build mode outside the four allowed ones has made the
\* construction raise, and no fetch, copy, build or write has happened or
\* ever happens in the run; a valid configuration, once CompileOptions is
\* built (MasterBinderInstaller.__init__ is reached when the three source
\* specifications exist), holds the fixed cc/c++ pair of its family and the
\* given build mode.
C19_InvalidConfigurationRaisesFirst ==
    status /= "init"
    => IF ValidConfiguration
       THEN mbi.binder.ok
            => /\ mbi.compiler.ok
               /\ mbi.compiler.cc = SystemPair[1]
               /\ mbi.compiler.cpp = SystemPair[2]
               /\ mbi.compiler.build_mode = args.build_mode
       ELSE /\ status = "raised"
            /\ ~mbi.ok
            /\ ~mbi.compiler.ok
            /\ NothingDone

W19_UnknownModeWithGoodSources ==
    /\ status = "raised"
    /\ args.build_mode = <<"Fast">>
    /\ args.compiler = <<"gcc">>
    /\ mbi.pybind11.ok /\ mbi.llvm.ok /\ mbi.binder.ok
    /\ NothingDone

\* ---------------------------------------------------------------- C20
Identity(version, source_location) ==
    IF version /= <<>> THEN version ELSE <<"FROM_SOURCE_">> \o source_location

\* C20: for every VersionOrSourceLocation that was constructed, get_id() is the
\* version when one is set and FROM_SOURCE_ followed by the path otherwise; and
\* after a successful orchestrated install the ENVFILE has one PYBIND11_SHA line
\* whose value is that identity of the pybind11 specification.
C20_IdentityInDescriptor ==
    /\ mbi.pybind11.ok => get_id(mbi.pybind11) = Identity(args.pybind11_sha, args.pybind11_source)
    /\ mbi.llvm.ok => get_id(mbi.llvm) = Identity(args.llvm_version, args.llvm_source)
    /\ mbi.binder.ok => get_id(mbi.binder) = Identity(args.binder_branch, args.binder_source)
    /\ MasterInstallReturned
         => /\ Cardinality(LinesWithKey(EnvfileLines, <<"PYBIND11_SHA">>)) = 1
            /\ EnvValue(<<"PYBIND11_SHA">>) = Identity(args.pybind11_sha, args.pybind11_source)

W20_LocalPybind11InDescriptor ==
    /\ MasterInstallReturned
    /\ args.pybind11_sha = <<>>
    /\ EnvValue(<<"PYBIND11_SHA">>) = <<"FROM_SOURCE_", SLASH, "src", SLASH, "pb", EQ, "11">>

\* ---------------------------------------------------------------- C22
\* a call that ran LLVMInstall.prepare() to its end has returned
LLVMPrepareReturned == status = "returned" /\ call.obj \in {"llvm", "master"}

\* C22 as stated: whenever a call that ran LLVMInstall.prepare() has returned,
\* clang-tools-extra/binder exists in the toolchain tree and
\* clang-tools-extra/CMakeLists.txt has the add_subdirectory(binder) line
\* exactly once, also when an earlier prepare() failed partway.
X22_PreparedMeansBinderStaged ==
    LLVMPrepareReturned => (fs.llvm_binder /\ fs.llvm_patch = 1)

\* ---------------------------------------------------------------- C23
LLVMTreePaths ==
    {llvm_base_source_directory, binder_clang_tools_extra_subdir, clang_tools_extra_subdir_cmakelists}

TouchesLLVMTree(e) == e.dir \in LLVMTreePaths \/ e.op \in ToolchainOps

\* C23: while the binder source directory does not exist, a finished call of
\* LLVMInstall.prepare() or install() has raised without any external effect,
\* no call has fetched, copied or patched anything in the toolchain tree, and
\* the tree does not exist, holds no binder copy and its CMakeLists.txt is
\* unpatched.
C23_NoBinderSourceNoToolchainTree ==
    ~fs.binder_src
    => /\ (call.obj = "llvm" /\ status \in {"returned", "raised"})
            => (status = "raised" /\ log = <<>>)
       /\ \A i \in 1..Len(log) : ~TouchesLLVMTree(log[i])
       /\ ~fs.llvm_dir
       /\ ~fs.llvm_binder
       /\ fs.llvm_patch = 0

W23_PrepareRaisedForMissingBinder ==
    /\ ~fs.binder_src
    /\ call.obj = "llvm"
    /\ call.method = "prepare"
    /\ status = "raised"
    /\ Truthy(mbi.llvm.version)

\* ---------------------------------------------------------------- C24
\* what a staging step that returned zero has left on disk
StagedEffectHolds(e) ==
    IF e.dir = binder_download_dir THEN fs.binder_dl
    ELSE IF e.dir = pybind11_base_source_directory
         THEN (e.op \in {"mkdir", "copytree"} => fs.pb_dir) /\ (e.op = "git remote add" => fs.pb_remote)
    ELSE IF e.dir = llvm_base_source_directory THEN fs.llvm_dir
    ELSE IF e.dir = binder_clang_tools_extra_subdir THEN fs.llvm_binder
    ELSE IF e.dir = clang_tools_extra_subdir_cmakelists THEN fs.llvm_patch >= 1
    ELSE TRUE

\* C24: a staging command of a call (clone, fetch, copy) that fails is the last
\* external effect of that call: the call has raised, nothing of it remains to
\* be run, and no toolchain command and no ENVFILE write is in the call.  When
\* the pybind11 include directory is missing after its download, the
\* orchestrator's call goes on to no toolchain staging or build step.  What the
\* earlier staging steps of the call put on disk is still there.
C24_StagingFailureAborts ==
    /\ \A i \in 1..Len(log) :
         (IsStaging(log[i]) /\ log[i].rc /= 0)
         => /\ i = Len(log)
            /\ status = "raised"
            /\ todo = <<>>
            /\ \A k \in 1..Len(log) : ~IsToolchain(log[k]) /\ ~IsWrite(log[k])
            /\ envfile = envfile0
    /\ (call.obj = "master" /\ fs.pb_include = "absent")
         => /\ \A k \in 1..Len(log) : ~TouchesLLVMTree(log[k])
            /\ status /= "returned"
    /\ \A i \in 1..Len(log) :
         (IsStaging(log[i]) /\ log[i].rc = 0) => StagedEffectHolds(log[i])

W24_ToolchainCloneFailedAfterPybind11 ==
    /\ call.obj = "master"
    /\ call.method = "install"
    /\ status = "raised"
    /\ Len(log) >= 6
    /\ log[Len(log)].op = "git clone"
    /\ log[Len(log)].dir = llvm_base_source_directory
    /\ log[Len(log)].rc /= 0
    /\ fs.pb_include = "dir"
    /\ fs.binder_dl

\* ================================================================ make_bindings_via_cmake.py
\* File lines and file names of the generation pipeline are sequences of
\* single characters, so startswith, strip, "in" and the sort order of str are
\* computed as Python computes them.

\* ---------------------------------------------------------------- bounds
MaxFiles == 2
MaxFileLines == 2

\* ---------------------------------------------------------------- str
\* the characters in use, in code point order
CodeOrder ==
    <<"\t", "\n", " ", "#", ".", "/", ";", "<", ">", "_",
      "a", "b", "c", "d", "e", "h", "i", "l", "m", "n", "p", "s", "u", "x">>

Ord(c) == IndexOf(CodeOrder, c, 1)

RECURSIVE StrLess(_, _)
StrLess(a, b) ==
    IF b = <<>> THEN FALSE
    ELSE IF a = <<>> THEN TRUE
    ELSE IF Ord(Head(a)) < Ord(Head(b)) THEN TRUE
    ELSE IF Ord(Head(a)) > Ord(Head(b)) THEN FALSE
    ELSE StrLess(Tail(a), Tail(b))

IsSpace(c) == c \in {" ", "\t", "\n"}

RECURSIVE LStrip(_)
LStrip(str) ==
    IF str /= <<>> /\ IsSpace(Head(str)) THEN LStrip(Tail(str)) ELSE str

RECURSIVE RStrip(_)
RStrip(str) ==
    IF str /= <<>> /\ IsSpace(str[Len(str)]) THEN RStrip(SubSeq(str, 1, Len(str) - 1)) ELSE str

Strip(str) == RStrip(LStrip(str))

StartsWith(str, prefix) ==
    Len(str) >= Len(prefix) /\ SubSeq(str, 1, Len(prefix)) = prefix

EndsWith(str, suffix) ==
    Len(str) >= Len(suffix) /\ SubSeq(str, Len(str) - Len(suffix) + 1, Len(str)) = suffix

Contains(str, sub) ==
    \E i \in 0..(Len(str) - Len(sub)) : SubSeq(str, i + 1, i + Len(sub)) = sub

RECURSIVE Replace(_, _, _)
Replace(str, old, new) ==
    IF str = <<>> THEN <<>>
    ELSE <<IF Head(str) = old THEN new ELSE Head(str)>> \o Replace(Tail(str), old, new)

SetOf(seq) == {seq[i] : i \in 1..Len(seq)}

\* list(set(xs)): the elements of xs, each once, in an order the build chooses
ListsOfSet(S) ==
    {order \in [1..Cardinality(S) -> S] :
        \A i, j \in 1..Cardinality(S) : order[i] = order[j] => i = j}

RECURSIVE InsertSorted(_, _)
InsertSorted(sorted, x) ==
    IF sorted = <<>> THEN <<x>>
    ELSE IF StrLess(x, Head(sorted)) THEN <<x>> \o sorted
    ELSE <<Head(sorted)>> \o InsertSorted(Tail(sorted), x)

\* faulty variant: the list is left in the order list(set(...)) gave it
list_sort_skipped(xs) == xs

RECURSIVE list_sort(_)
list_sort(xs) ==
    IF xs = <<>> THEN <<>>
    ELSE InsertSorted(list_sort(SubSeq(xs, 1, Len(xs) - 1)), xs[Len(xs)])

\* ---------------------------------------------------------------- make_and_write_all_includes
INCLUDE == <<"#", "i", "n", "c", "l", "u", "d", "e">>

\* faulty variant: the ignore words are not looked at
IncludeLineKept_ignores_nothing(line, include_line_ignore_words) == StartsWith(line, INCLUDE)

\* line.startswith("#include") and not any(x in line for x in include_line_ignore_words)
IncludeLineKept(line, include_line_ignore_words) ==
    /\ StartsWith(line, INCLUDE)
    /\ ~\E k \in 1..Len(include_line_ignore_words) : Contains(line, include_line_ignore_words[k])

RECURSIVE IncludesOfLines(_, _)
IncludesOfLines(lines, include_line_ignore_words) ==
    IF lines = <<>> THEN <<>>
    ELSE (IF IncludeLineKept(Head(lines), include_line_ignore_words)
          THEN <<Strip(Head(lines))>> ELSE <<>>)
         \o IncludesOfLines(Tail(lines), include_line_ignore_words)

\* the list all_includes after the loop over the files
RECURSIVE IncludesOfFiles(_, _)
IncludesOfFiles(files, include_line_ignore_words) ==
    IF files = <<>> THEN <<>>
    ELSE IncludesOfLines(Head(files).lines, include_line_ignore_words)
         \o IncludesOfFiles(Tail(files), include_line_ignore_words)

\* fh.write(f"{include}\n") for each include
WrittenLines(includes) == [i \in 1..Len(includes) |-> includes[i] \o <<"\n">>]

GAt(stage) == gstatus = "running" /\ gtodo /= <<>> /\ Head(gtodo) = stage

GContinue ==
    /\ gtodo' = Tail(gtodo)
    /\ gstatus' = "running"

GRaise ==
    /\ gtodo' = <<>>
    /\ gstatus' = "raised"

all_includes_fn == <<"a", "l", "l", "_", "i", "n", "c", "l", "u", "d", "e", "s", ".", "h", "p", "p">>

\* main: the include closure is collected unless --custom-all-includes-file is given
MakeAndWriteAllIncludes ==
    /\ GAt("make_and_write_all_includes")
    /\ IF Truthy(gargs.custom_all_includes_file)
       THEN UNCHANGED <<gout, glog>>
       ELSE \E order \in ListsOfSet(SetOf(IncludesOfFiles(gfiles, gargs.include_line_ignore_words))) :
              /\ gout' = [gout EXCEPT !.all_includes =
                             [exists |-> TRUE, lines |-> WrittenLines(list_sort(order))]]
              /\ glog' = Append(glog, Event("write", <<>>, all_includes_fn, 0))
    /\ GContinue
    /\ UNCHANGED <<gargs, gtree, gfiles, gsources>>
    /\ UNCHANGED vars

\* ---------------------------------------------------------------- inputs of the include closure
LinePool ==
    { INCLUDE \o <<" ", "<", "b", ">", "\n">>,
      INCLUDE \o <<" ", "<", "a", ">", "\n">>,
      INCLUDE \o <<" ", "<", "a", ">", " ", "\n">>,
      <<" ">> \o INCLUDE \o <<" ", "<", "c", ">", "\n">>,
      <<"x", ";", "\n">> }

RECURSIVE SeqsUpTo(_, _)
SeqsUpTo(S, n) ==
    IF n = 0 THEN {<<>>}
    ELSE LET shorter == SeqsUpTo(S, n - 1) IN
         shorter \cup {Append(q, x) : q \in shorter, x \in S}

header_name == <<"s", "/", "a", ".", "h">>

ProjectFiles == {[name |-> header_name, lines |-> c] : c \in SeqsUpTo(LinePool, MaxFileLines)}

InstallerIdle ==
    /\ args = [binder_branch |-> <<>>, binder_source |-> <<>>, llvm_version |-> <<>>,
               llvm_source |-> <<>>, pybind11_sha |-> <<>>, pybind11_source |-> <<>>,
               build_path |-> <<>>, compiler |-> <<>>, build_mode |-> <<>>]
    /\ mbi = [ok |-> FALSE, binder |-> NoVSL, llvm |-> NoVSL, pybind11 |-> NoVSL,
              compiler |-> NoCompileOptions]
    /\ build_dir = <<>>
    /\ fs = [binder_dl |-> FALSE, binder_src |-> FALSE,
             pb_dir |-> FALSE, pb_remote |-> FALSE, pb_include |-> "absent",
             llvm_dir |-> FALSE, llvm_binder |-> FALSE, llvm_patch |-> 0,
             ldconf |-> FALSE, configured |-> {}, installed |-> {}, clang_installed |-> FALSE]
    /\ envfile = NoFile
    /\ call = NoCall
    /\ todo = <<>>
    /\ status = "init"
    /\ log = <<>>
    /\ env_info = <<>>
    /\ ret = <<>>
    /\ ncalls = 0
    /\ prepared_ok = {}
    /\ envfile0 = NoFile
    /\ prepared0 = {}
    /\ configures = <<>>

allvars == <<vars, gvars>>

\* make_and_write_all_includes applied to every list of files within the bounds
IncludesInit ==
    /\ InstallerIdle
    /\ gargs \in {[NoGArgs EXCEPT !.include_line_ignore_words = w] : w \in {<<>>, << <<"b">> >>, << <<">", " ">> >>}}
    /\ gfiles \in SeqsUpTo(ProjectFiles, MaxFiles)
    /\ gtree = SetOf(gfiles)
    /\ gout = EmptyOutput
    /\ gsources = <<>>
    /\ gtodo = <<"make_and_write_all_includes">>
    /\ gstatus = "running"
    /\ glog = <<>>

IncludesNext == MakeAndWriteAllIncludes

IncludesSpec == IncludesInit /\ [][IncludesNext]_allvars

\* ---------------------------------------------------------------- C11
\* the lines of a written file without their line end
RECURSIVE WithoutLineEnds(_)
WithoutLineEnds(lines) ==
    IF lines = <<>> THEN <<>>
    ELSE <<SubSeq(Head(lines), 1, Len(Head(lines)) - 1)>> \o WithoutLineEnds(Tail(lines))

IncludesWritten == WithoutLineEnds(gout.all_includes.lines)

RawLinesOf(fileset) == UNION {SetOf(f.lines) : f \in fileset}

\* C11: the lines make_and_write_all_includes writes are strictly ascending in
\* the order of str (so none is written twice), every written line ends with a
\* line end, and the set of lines written is fixed by the set of files and the
\* ignore words alone: the order and multiplicity of files and lines play no part.
C11_OutputSortedAndOrderFree ==
    gout.all_includes.exists
    => /\ \A i \in 1..Len(IncludesWritten) : \A j \in 1..Len(IncludesWritten) :
            i < j => StrLess(IncludesWritten[i], IncludesWritten[j])
       /\ \A i \in 1..Len(gout.all_includes.lines) :
            EndsWith(gout.all_includes.lines[i], <<"\n">>)
       /\ SetOf(IncludesWritten)
            = {Strip(l) : l \in {r \in RawLinesOf(SetOf(gfiles)) :
                                    IncludeLineKept(r, gargs.include_line_ignore_words)}}

W11_UnsortedDuplicatedInput ==
    /\ gout.all_includes.exists
    /\ Len(gfiles) = 2
    /\ gfiles[1] = gfiles[2]
    /\ Len(gfiles[1].lines) = 2
    /\ StrLess(Strip(gfiles[1].lines[2]), Strip(gfiles[1].lines[1]))
    /\ Len(IncludesWritten) = 2

\* ---------------------------------------------------------------- C12
IgnoreWords == SetOf(gargs.include_line_ignore_words)

ScannedLines == RawLinesOf(SetOf(gfiles))

\* C12 as stated: the written set is the set of stripped scanned lines that
\* begin with the include directive and contain no ignore word.
X12_StrippedLinesQualify ==
    gout.all_includes.exists
    => SetOf(IncludesWritten)
         = {t \in {Strip(l) : l \in ScannedLines} :
              /\ StartsWith(t, INCLUDE)
              /\ \A w \in IgnoreWords : ~Contains(t, w)}

\* C12: the written set is the set of stripped forms of the scanned lines whose
\* text as read (before stripping) begins with the include directive and
\* contains no ignore word; no written line contains an ignore word and every
\* written line begins with the include directive.
C12_RawLinesQualify ==
    gout.all_includes.exists
    => /\ SetOf(IncludesWritten)
            = {Strip(l) : l \in {r \in ScannedLines :
                                    /\ StartsWith(r, INCLUDE)
                                    /\ \A w \in IgnoreWords : ~Contains(r, w)}}
       /\ \A t \in SetOf(IncludesWritten) :
            /\ StartsWith(t, INCLUDE)
            /\ \A w \in IgnoreWords : ~Contains(t, w)

W12_IgnoredAndKeptLines ==
    /\ gout.all_includes.exists
    /\ IgnoreWords /= {}
    /\ \E l \in ScannedLines : StartsWith(l, INCLUDE) /\ \E w \in IgnoreWords : Contains(l, w)
    /\ \E l \in ScannedLines : ~StartsWith(l, INCLUDE)
    /\ IncludesWritten /= <<>>

\* ================================================================ the generation pipeline (main)
MaxManifest == 3

\* ---------------------------------------------------------------- inputs of a run
SourceNames ==
    { <<"s", "/", "d", "/", "a", ".", "c">>,
      <<"s", "/", "d", "_", "a", ".", "c">>,
      <<"s", "/", "b", ".", "c", "p", "p">>,
      header_name }

SourcePatterns ==
    << <<".", "h", "p", "p">>, <<".", "c", "p", "p">>, <<".", "h">>,
       <<".", "h", "h">>, <<".", "c", "c">>, <<".", "c">> >>

LinesOfFile(name) ==
    IF \E k \in {1, 3, 4} : EndsWith(name, SourcePatterns[k])
    THEN << INCLUDE \o <<" ", "<", "b", ">", "\n">>, INCLUDE \o <<" ", "<", "a", ">", "\n">> >>
    ELSE << INCLUDE \o <<" ", "<", "a", ">", "\n">>, <<"x", ";", "\n">> >>

SourceTrees ==
    {{[name |-> n, lines |-> LinesOfFile(n)] : n \in names} :
        names \in {ns \in SUBSET SourceNames : Cardinality(ns) <= MaxFiles}}

\* the text "docker-image", which run_in_docker looks for inside each argument
DOCKER_IMAGE == <<"d", "o", "c", "k", "e", "r", "-", "i", "m", "a", "g", "e">>

docker_image_flag == <<"-", "-">> \o DOCKER_IMAGE

\* sys.argv[1:] of a dbuild run; the arguments every run has are left out
\* except --module-name
DbuildCommandLines ==
    { << <<"dbuild">>, <<"--module-name">>, <<"m">>, docker_image_flag, <<"img">> >>,
      << <<"dbuild">>, docker_image_flag, <<"img">>, <<"--module-name">>, <<"m">> >>,
      << <<"dbuild">>, docker_image_flag \o <<"=", "img">>, <<"--module-name">>, <<"m">> >>,
      << <<"dbuild">>, <<"--module-name">>, <<"m">> >> }

GArgSpace ==
    UNION {
    [argv : IF sub = <<"dbuild">> THEN DbuildCommandLines
            ELSE { << <<"lbuild">>, <<"--module-name">>, <<"m">> >> },
     subparser : {sub},
     module_name : {<<"m">>},
     project_sources : { << <<"s">> >>, << <<"s">>, <<"s", "/", "d">> >> },
     include_line_ignore_words : {<<>>, << <<"b">> >>},
     preinstall_script : {<<>>, <<"pre.sh">>},
     custom_all_includes_file : {<<>>, <<"my_includes.hpp">>}] : sub \in {<<"lbuild">>, <<"dbuild">>} }

output_directory == <<"out">>
pybind11_source == <<"/build/pybind11">>
binder_executable == <<"binder">>
config_file == <<"config.cfg">>
extra_binder_flags == <<>>
cwd == <<"/w">>

\* str(Path(x).resolve()) of a relative path
Resolve(x) == cwd \o <<"/">> \o x

\* ---------------------------------------------------------------- get_all_project_source_files
\* ps_pth.rglob("*" + pattern): the files below the directory whose name ends
\* with the pattern, in the order the filesystem lists them
RglobMatches(tree, project_source, pattern) ==
    {f \in tree : StartsWith(f.name, project_source \o <<"/">>) /\ EndsWith(f.name, pattern)}

RECURSIVE RglobLists(_, _, _)
RglobLists(tree, project_source, k) ==
    IF k > Len(SourcePatterns) THEN {<<>>}
    ELSE {first \o rest :
            first \in ListsOfSet(RglobMatches(tree, project_source, SourcePatterns[k])),
            rest \in RglobLists(tree, project_source, k + 1)}

RECURSIVE get_all_project_source_files(_, _)
get_all_project_source_files(tree, project_sources) ==
    IF project_sources = <<>> THEN {<<>>}
    ELSE {first \o rest :
            first \in RglobLists(tree, Head(project_sources), 1),
            rest \in get_all_project_source_files(tree, Tail(project_sources))}

\* ---------------------------------------------------------------- main, up to the generator
\* faulty variant: the generator is run before the include closure is collected
LbuildStages_generator_first ==
    <<"run_preinstall_script", "reset_output_directory", "get_all_project_source_files",
      "binder", "make_and_write_all_includes", "read_manifest",
      "write_cmakelists", "cmake", "ninja", "import_module">>

\* the statements of main for lbuild, in program order
LbuildStages ==
    <<"run_preinstall_script", "reset_output_directory", "get_all_project_source_files",
      "make_and_write_all_includes", "binder", "read_manifest",
      "write_cmakelists", "cmake", "ninja", "import_module">>

\* args = parseargs(); dbuild hands the run to docker, lbuild runs the stages
ParseArgs ==
    /\ gstatus = "idle"
    /\ \E a \in GArgSpace :
         /\ gargs' = a
         /\ gtodo' = IF a.subparser = <<"dbuild">> THEN <<"run_in_docker">> ELSE LbuildStages
    /\ gstatus' = "running"
    /\ glog' = <<>>
    /\ UNCHANGED <<gtree, gfiles, gout, gsources>>
    /\ UNCHANGED vars

\* the loop of run_in_docker over sys.argv[1:], from position i on
RECURSIVE new_args(_, _)
new_args(argv, i) ==
    IF i > Len(argv) THEN <<>>
    ELSE (IF argv[i] = <<"dbuild">> THEN << <<"lbuild">> >> ELSE <<>>)
         \o (IF Contains(argv[i], DOCKER_IMAGE) \/ (i > 1 /\ Contains(argv[i - 1], DOCKER_IMAGE))
             THEN <<>> ELSE <<argv[i]>>)
         \o new_args(argv, i + 1)

\* command += ["--pybind11-source", "/build/pybind11", "--binder-executable", "binder"]
docker_fixed_args ==
    << <<"--pybind11-source">>, <<"/build/pybind11">>, <<"--binder-executable">>, <<"binder">> >>

\* what follows "make_bindings_via_cmake.py" in the docker command
forwarded_args(argv) == new_args(argv, 1) \o docker_fixed_args

\* run_in_docker: the only stage of a dbuild run; a non-zero return code raises
RunInDocker ==
    /\ GAt("run_in_docker")
    /\ \E rc \in ReturnCodes :
         /\ glog' = Append(glog, Event("docker run", forwarded_args(gargs.argv), cwd, rc))
         /\ IF rc /= 0 THEN GRaise ELSE GContinue
    /\ UNCHANGED <<gargs, gtree, gfiles, gout, gsources>>
    /\ UNCHANGED vars

\* run_preinstall_script: subprocess.run(["sh", script]) when a script is given;
\* the return code is not looked at
RunPreinstallScript ==
    /\ GAt("run_preinstall_script")
    /\ IF Truthy(gargs.preinstall_script)
       THEN \E rc \in ReturnCodes :
              glog' = Append(glog, Event("sh", gargs.preinstall_script, cwd, rc))
       ELSE UNCHANGED glog
    /\ GContinue
    /\ UNCHANGED <<gargs, gtree, gfiles, gout, gsources>>
    /\ UNCHANGED vars

\* shutil.rmtree(output_directory, ignore_errors=True); mkdir: the include
\* closure and the manifest of an earlier run are gone, CMakeLists.txt (in the
\* working directory) stays
ResetOutputDirectory ==
    /\ GAt("reset_output_directory")
    /\ gout' = [gout EXCEPT !.all_includes = NoLines, !.manifest = NoLines]
    /\ glog' = Append(glog, Event("rmtree", <<>>, output_directory, 0))
    /\ GContinue
    /\ UNCHANGED <<gargs, gtree, gfiles, gsources>>
    /\ UNCHANGED vars

GetAllProjectSourceFiles ==
    /\ GAt("get_all_project_source_files")
    /\ gfiles' \in get_all_project_source_files(gtree, gargs.project_sources)
    /\ GContinue
    /\ UNCHANGED <<gargs, gtree, gout, gsources, glog>>
    /\ UNCHANGED vars

\* ---------------------------------------------------------------- make_bindings_code
all_includes_path ==
    IF Truthy(gargs.custom_all_includes_file)
    THEN Resolve(gargs.custom_all_includes_file)
    ELSE Resolve(output_directory \o <<"/">> \o all_includes_fn)

extra_source_directories ==
    [i \in 1..Len(gargs.project_sources) |-> Resolve(gargs.project_sources[i])]
    \o << <<"/usr/include/python3">>, Resolve(<<"pybind11/include">>) >>

RECURSIVE JoinStrs(_, _)
JoinStrs(strs, sep) ==
    IF strs = <<>> THEN <<>>
    ELSE IF Len(strs) = 1 THEN Head(strs)
    ELSE Head(strs) \o sep \o JoinStrs(Tail(strs), sep)

BinderCommand ==
    binder_executable \o <<" --root-module ">> \o gargs.module_name
    \o <<" --prefix ">> \o output_directory \o <<" ">> \o extra_binder_flags
    \o <<" --config ">> \o config_file
    \o <<" ">> \o all_includes_path \o <<" -- -std=c++11">>
    \o <<" ">>
    \o JoinStrs([i \in 1..Len(extra_source_directories) |-> <<"-I">> \o extra_source_directories[i]], <<" ">>)
    \o <<" -DNDEBUG -v">>

ManifestLinePool ==
    { <<"m", "/", "a", ".", "c", "p", "p", "\n">>,
      <<"m", "/", "b", ".", "c", "p", "p", "\n">>,
      <<"m", "/", "a", ".", "c", "p", "p", " ", "\n">> }

\* what the generator may leave as <module>.sources
Manifests ==
    {NoLines} \cup {[exists |-> TRUE, lines |-> ls] : ls \in SeqsUpTo(ManifestLinePool, MaxManifest)}

\* faulty variant: the generator's return code is not looked at
BinderFailed_never(returncode) == FALSE

\* if ret.returncode != 0: raise RuntimeError
BinderFailed(returncode) == returncode /= 0

\* ret = subprocess.run(command.split()); a non-zero return code raises
RunBinder ==
    /\ GAt("binder")
    /\ \E rc \in ReturnCodes : \E manifest \in Manifests :
         /\ glog' = Append(glog, Event("binder", BinderCommand, cwd, rc))
         /\ gout' = [gout EXCEPT !.manifest = manifest]
         /\ IF BinderFailed(rc) THEN GRaise ELSE GContinue
    /\ UNCHANGED <<gargs, gtree, gfiles, gsources>>
    /\ UNCHANGED vars

\* faulty variant: a repeated entry is appended like any other
RECURSIVE ReadSources_keeps_repeats(_, _)
ReadSources_keeps_repeats(lines, sources_to_compile) ==
    IF lines = <<>> THEN [ok |-> TRUE, sources |-> sources_to_compile]
    ELSE ReadSources_keeps_repeats(Tail(lines), Append(sources_to_compile, Strip(Head(lines))))

\* the loop over the lines of <module>.sources; ok is FALSE when it raised
RECURSIVE ReadSources(_, _)
ReadSources(lines, sources_to_compile) ==
    IF lines = <<>> THEN [ok |-> TRUE, sources |-> sources_to_compile]
    ELSE LET l == Strip(Head(lines)) IN
         IF l \in SetOf(sources_to_compile)
         THEN [ok |-> FALSE, sources |-> sources_to_compile]
         ELSE ReadSources(Tail(lines), Append(sources_to_compile, l))

\* open(<module>.sources) raises when the generator wrote no manifest
ReadManifest ==
    /\ GAt("read_manifest")
    /\ IF ~gout.manifest.exists
       THEN GRaise /\ UNCHANGED gsources
       ELSE LET read == ReadSources(gout.manifest.lines, <<>>) IN
            /\ gsources' = read.sources
            /\ IF read.ok THEN GContinue ELSE GRaise
    /\ glog' = Append(glog, Event("read", <<>>, output_directory \o <<"/">> \o gargs.module_name \o <<".sources">>, 0))
    /\ UNCHANGED <<gargs, gtree, gfiles, gout>>
    /\ UNCHANGED vars

\* ---------------------------------------------------------------- compile_sources
RECURSIVE LastIndexOf(_, _, _)
LastIndexOf(str, c, i) ==
    IF i = 0 THEN 0
    ELSE IF str[i] = c THEN i
    ELSE LastIndexOf(str, c, i - 1)

\* Path(source_fn).suffix: the last component's text from its last dot on
PathSuffix(source_fn) ==
    LET name == SubSeq(source_fn, LastIndexOf(source_fn, "/", Len(source_fn)) + 1, Len(source_fn))
        dot == LastIndexOf(name, ".", Len(name))
    IN IF dot <= 1 THEN <<>> ELSE SubSeq(name, dot, Len(name))

IsCompilationUnit(source_fn) == Contains(PathSuffix(source_fn), <<"c">>)

source_lib_name(source_fn) == Replace(Replace(source_fn, "/", "_"), ".", "_")

LibraryLines(source_fn, directories_to_include) ==
    << <<"add_library(">> \o source_lib_name(source_fn) \o <<" STATIC ", "${CMAKE_SOURCE_DIR}/">>
          \o source_fn \o <<")">>,
       <<"set_target_properties(">> \o source_lib_name(source_fn)
          \o <<" PROPERTIES POSITION_INDEPENDENT_CODE ON)">>,
       <<"target_include_directories(">> \o source_lib_name(source_fn) \o <<" PRIVATE ">>
          \o JoinStrs(directories_to_include, <<" ">>) \o <<")">> >>

RECURSIVE AllLibraryLines(_, _)
AllLibraryLines(source_fns, directories_to_include) ==
    IF source_fns = <<>> THEN <<>>
    ELSE (IF IsCompilationUnit(Head(source_fns))
          THEN LibraryLines(Head(source_fns), directories_to_include) ELSE <<>>)
         \o AllLibraryLines(Tail(source_fns), directories_to_include)

tolink(source_fns) ==
    LET units == SelectSeq(source_fns, IsCompilationUnit) IN
    [i \in 1..Len(units) |-> source_lib_name(units[i])]

sources_to_compile_for_cmake(sources_to_compile) ==
    [i \in 1..Len(sources_to_compile) |-> <<"${CMAKE_CURRENT_BINARY_DIR}/">> \o sources_to_compile[i]]

\* faulty variant: the project's compilation units are also made sources of the module
compile_sources_adds_units(sources_to_compile, module_name, directories_to_include, pybind11_src, source_fns) ==
    << <<"cmake_minimum_required(VERSION 3.4...3.18)">>,
       <<"project(">> \o module_name \o <<")">>,
       <<"add_subdirectory(\"">> \o pybind11_src
          \o <<"\" \"", "${CMAKE_CURRENT_BINARY_DIR}/", "pybind11_build\")">>,
       <<>> >>
    \o AllLibraryLines(source_fns, directories_to_include)
    \o << <<"pybind11_add_module(">> \o module_name \o <<" MODULE ">>
             \o JoinStrs(sources_to_compile_for_cmake(sources_to_compile)
                         \o SelectSeq(source_fns, IsCompilationUnit), <<" ">>) \o <<")">>,
          <<"target_include_directories(">> \o module_name \o <<" PRIVATE ">>
             \o JoinStrs(directories_to_include, <<" ">>) \o <<")">>,
          <<"set_target_properties(">> \o module_name \o <<" PROPERTIES POSITION_INDEPENDENT_CODE ON)">>,
          <<"target_link_libraries(">> \o module_name \o <<" PRIVATE ">>
             \o JoinStrs(tolink(source_fns), <<" ">>) \o <<")">> >>

\* lines_to_write of compile_sources
compile_sources(sources_to_compile, module_name, directories_to_include, pybind11_src, source_fns) ==
    << <<"cmake_minimum_required(VERSION 3.4...3.18)">>,
       <<"project(">> \o module_name \o <<")">>,
       <<"add_subdirectory(\"">> \o pybind11_src
          \o <<"\" \"", "${CMAKE_CURRENT_BINARY_DIR}/", "pybind11_build\")">>,
       <<>> >>
    \o AllLibraryLines(source_fns, directories_to_include)
    \o << <<"pybind11_add_module(">> \o module_name \o <<" MODULE ">>
             \o JoinStrs(sources_to_compile_for_cmake(sources_to_compile), <<" ">>) \o <<")">>,
          <<"target_include_directories(">> \o module_name \o <<" PRIVATE ">>
             \o JoinStrs(directories_to_include, <<" ">>) \o <<")">>,
          <<"set_target_properties(">> \o module_name \o <<" PROPERTIES POSITION_INDEPENDENT_CODE ON)">>,
          <<"target_link_libraries(">> \o module_name \o <<" PRIVATE ">>
             \o JoinStrs(tolink(source_fns), <<" ">>) \o <<")">> >>

cmakelists_fn == <<"CMakeLists.txt">>

\* with open("CMakeLists.txt", "w"): every line of lines_to_write and a line end
WriteCMakeLists ==
    /\ GAt("write_cmakelists")
    /\ gout' = [gout EXCEPT !.cmakelists =
                   [exists |-> TRUE,
                    lines |-> WrittenLines(compile_sources(gsources, gargs.module_name,
                                  extra_source_directories, pybind11_source,
                                  [i \in 1..Len(gfiles) |-> gfiles[i].name]))]]
    /\ glog' = Append(glog, Event("write", <<>>, cmakelists_fn, 0))
    /\ GContinue
    /\ UNCHANGED <<gargs, gtree, gfiles, gsources>>
    /\ UNCHANGED vars

\* subprocess.run("cmake -G Ninja ... ..".split(), cwd=bindings_dir): the
\* return code is not looked at
RunCMake ==
    /\ GAt("cmake")
    /\ \E rc \in ReturnCodes :
         glog' = Append(glog, Event("cmake",
                     <<"-G Ninja -DCMAKE_CXX_COMPILER=clang++ -DCMAKE_C_COMPILER=clang ..">>,
                     output_directory, rc))
    /\ GContinue
    /\ UNCHANGED <<gargs, gtree, gfiles, gout, gsources>>
    /\ UNCHANGED vars

\* subprocess.run("ninja -v".split(), cwd=bindings_dir): the return code is
\* not looked at
RunNinja ==
    /\ GAt("ninja")
    /\ \E rc \in ReturnCodes :
         glog' = Append(glog, Event("ninja", <<"-v">>, output_directory, rc))
    /\ GContinue
    /\ UNCHANGED <<gargs, gtree, gfiles, gout, gsources>>
    /\ UNCHANGED vars

\* importlib.import_module(module_name): ImportError when no module of that
\* name is found on sys.path
ImportModule ==
    /\ GAt("import_module")
    /\ \E rc \in ReturnCodes :
         /\ glog' = Append(glog, Event("import", gargs.module_name, output_directory, rc))
         /\ IF rc /= 0 THEN GRaise ELSE GContinue
    /\ UNCHANGED <<gargs, gtree, gfiles, gout, gsources>>
    /\ UNCHANGED vars

\* main returns
GReturn ==
    /\ gstatus = "running"
    /\ gtodo = <<>>
    /\ gstatus' = "done"
    /\ UNCHANGED <<gargs, gtree, gfiles, gout, gsources, gtodo, glog>>
    /\ UNCHANGED vars

GenInit ==
    /\ InstallerIdle
    /\ gargs = NoGArgs
    /\ gtree \in SourceTrees
    /\ gfiles = <<>>
    /\ gout = EmptyOutput
    /\ gsources = <<>>
    /\ gtodo = <<>>
    /\ gstatus = "idle"
    /\ glog = <<>>

GenNext ==
    \/ ParseArgs
    \/ RunInDocker
    \/ RunPreinstallScript
    \/ ResetOutputDirectory
    \/ GetAllProjectSourceFiles
    \/ MakeAndWriteAllIncludes
    \/ RunBinder
    \/ ReadManifest
    \/ WriteCMakeLists
    \/ RunCMake
    \/ RunNinja
    \/ ImportModule
    \/ GReturn

GenSpec == GenInit /\ [][GenNext]_allvars

GenTypeOK ==
    /\ gstatus \in {"idle", "running", "raised", "done"}
    /\ Len(gsources) <= MaxManifest
    /\ gout.cmakelists.exists => Len(gout.cmakelists.lines) >= 8

\* ---------------------------------------------------------------- observations of a run
GOps == [i \in 1..Len(glog) |-> glog[i].op]

GHas(op) == \E i \in 1..Len(glog) : glog[i].op = op

ManifestWasRead == GHas("read") /\ gout.manifest.exists

ManifestEntries == [i \in 1..Len(gout.manifest.lines) |-> Strip(gout.manifest.lines[i])]

IsRepeat(j) == \E i \in 1..(j - 1) : ManifestEntries[i] = ManifestEntries[j]

HasRepeat == \E j \in 1..Len(ManifestEntries) : IsRepeat(j)

FirstRepeat == CHOOSE j \in 1..Len(ManifestEntries) : IsRepeat(j) /\ \A k \in 1..(j - 1) : ~IsRepeat(k)

CompileStageOps == {"cmake", "ninja", "import"}

\* ---------------------------------------------------------------- C13
\* C13: once <module>.sources has been read, a manifest with a repeated entry
\* has made the run raise with exactly the entries before the first repeat
\* collected, and no build description is written and no configure, build or
\* import step appears in the run; a manifest without repeats yields the list
\* of its entries in manifest order.
C13_RepeatedEntryStopsBeforeCompile ==
    ManifestWasRead
    => IF HasRepeat
       THEN /\ gstatus = "raised"
            /\ gsources = SubSeq(ManifestEntries, 1, FirstRepeat - 1)
            /\ ~gout.cmakelists.exists
            /\ \A i \in 1..Len(glog) :
                 glog[i].op \notin CompileStageOps /\ glog[i].dir /= cmakelists_fn
       ELSE gsources = ManifestEntries

W13_RepeatAtThirdLine ==
    /\ ManifestWasRead
    /\ HasRepeat
    /\ FirstRepeat = 3
    /\ gstatus = "raised"
    /\ Len(gsources) = 2

\* ---------------------------------------------------------------- C14
\* C14 as stated: after a configure step with a non-zero return code no build
\* step and no import is attempted, after a build step with a non-zero return
\* code no import is attempted, and such a run does not end successfully.
X14_FailedConfigureOrBuildIsFatal ==
    \A i \in 1..Len(glog) :
        (glog[i].op \in {"cmake", "ninja"} /\ glog[i].rc /= 0)
        => /\ \A j \in (i + 1)..Len(glog) : glog[j].op \notin {"ninja", "import"}
           /\ gstatus /= "done"

\* ---------------------------------------------------------------- C15
\* the stage an event of the run belongs to (0: none of the seven stages)
StageOf(e) ==
    IF e.op = "write" /\ e.dir = all_includes_fn THEN 1
    ELSE IF e.op = "binder" THEN 2
    ELSE IF e.op = "read" THEN 3
    ELSE IF e.op = "write" /\ e.dir = cmakelists_fn THEN 4
    ELSE IF e.op = "cmake" THEN 5
    ELSE IF e.op = "ninja" THEN 6
    ELSE IF e.op = "import" THEN 7
    ELSE 0

IsStageEvent(e) == StageOf(e) > 0

StageLog == SelectSeq(glog, IsStageEvent)

Stages == [i \in 1..Len(StageLog) |-> StageOf(StageLog[i])]

IsLbuild == gargs.subparser = <<"lbuild">>

\* C15: in an lbuild run the stages that have happened form an initial part of
\* include-closure collection, generator, manifest reading, build description,
\* configure, build, import, each at most once and in that order (the include
\* closure stage is left out only when a custom all-includes file is given);
\* the generator is never invoked twice, and a run that returned went through
\* every stage with exactly one generator invocation.
C15_StagesInOrder ==
    IsLbuild
    => /\ \A i \in 1..Len(Stages) : \A j \in 1..Len(Stages) : i < j => Stages[i] < Stages[j]
       /\ \A i \in 1..Len(Stages) :
            \A k \in 1..(Stages[i] - 1) :
                (k = 1 /\ Truthy(gargs.custom_all_includes_file))
                \/ \E j \in 1..(i - 1) : Stages[j] = k
       /\ Cardinality({i \in 1..Len(glog) : glog[i].op = "binder"}) <= 1
       /\ gstatus = "done"
            => /\ Cardinality({i \in 1..Len(glog) : glog[i].op = "binder"}) = 1
               /\ (2..7) \subseteq SetOf(Stages)

W15_AllStagesRan ==
    /\ IsLbuild
    /\ gstatus = "done"
    /\ Stages = <<1, 2, 3, 4, 5, 6, 7>>

\* ---------------------------------------------------------------- reading the build description
\* the lines of CMakeLists.txt without their line end
CMakeLines == WithoutLineEnds(gout.cmakelists.lines)

IsLibraryLine(line) == line /= <<>> /\ Head(line) = "add_library("

IsModuleLine(line) == line /= <<>> /\ Head(line) = "pybind11_add_module("

\* add_library(<name> STATIC ${CMAKE_SOURCE_DIR}/<file>)
LibraryTarget(line) ==
    LET k == IndexOf(line, " STATIC ", 1) IN
    [name |-> SubSeq(line, 2, k - 1), file |-> SubSeq(line, k + 2, Len(line) - 1)]

LibraryTargets ==
    LET ls == SelectSeq(CMakeLines, IsLibraryLine) IN
    [i \in 1..Len(ls) |-> LibraryTarget(ls[i])]

\* the words after the keyword of a target line, up to the closing bracket
WordsAfter(line, keyword) ==
    LET k == IndexOf(line, keyword, 1)
        rest == SubSeq(line, k + 1, Len(line) - 1)
    IN IF rest = <<>> THEN <<>> ELSE Split(rest, " ")

\* ---------------------------------------------------------------- C16
\* C16 as stated, in the part about target names: the static-library targets of
\* distinct project files have distinct names.
X16_DistinctFilesDistinctNames ==
    gout.cmakelists.exists
    => \A i \in 1..Len(LibraryTargets) : \A j \in 1..Len(LibraryTargets) :
            LibraryTargets[i].file /= LibraryTargets[j].file
            => LibraryTargets[i].name /= LibraryTargets[j].name

\* ---------------------------------------------------------------- C17
ModuleLines == SelectSeq(CMakeLines, IsModuleLine)

\* the sources of the module target, with the binary-directory prefix removed
ModuleSources ==
    LET words == WordsAfter(ModuleLines[1], " MODULE ") IN
    [i \in 1..Len(words) |-> Tail(words[i])]

\* C17: the build description has exactly one module target; each of its
\* sources is a path below the build's binary directory, and these paths are
\* the entries of <module>.sources, each once and in manifest order; no
\* project file is among them.
C17_ModuleSourcesAreManifest ==
    gout.cmakelists.exists
    => /\ Len(ModuleLines) = 1
       /\ LET words == WordsAfter(ModuleLines[1], " MODULE ") IN
          \A i \in 1..Len(words) : Head(words[i]) = "${CMAKE_CURRENT_BINARY_DIR}/"
       /\ ModuleSources = ManifestEntries
       /\ \A i \in 1..Len(ModuleSources) : \A j \in 1..Len(ModuleSources) :
            ModuleSources[i] = ModuleSources[j] => i = j
       /\ \A i \in 1..Len(ModuleSources) : ModuleSources[i] \notin {f.name : f \in gtree}

W17_TwoSourcesAndAUnit ==
    /\ gout.cmakelists.exists
    /\ Len(ModuleSources) = 2
    /\ Len(LibraryTargets) >= 1

\* ---------------------------------------------------------------- C21
NoCompilation ==
    /\ ~gout.cmakelists.exists
    /\ \A i \in 1..Len(glog) :
         glog[i].op \notin CompileStageOps /\ glog[i].dir /= cmakelists_fn

\* C21: a generator invocation with a non-zero return code is the last thing
\* the run does: the run has raised, the manifest was not opened, and no build
\* description, configure, build or import follows.  The manifest is opened
\* only after a generator invocation that returned zero, and when it is absent
\* then, the run has raised with no build description, configure, build or
\* import.
C21_GeneratorFailureStopsRun ==
    /\ \A i \in 1..Len(glog) :
         (glog[i].op = "binder" /\ glog[i].rc /= 0)
         => /\ i = Len(glog)
            /\ gstatus = "raised"
            /\ ~GHas("read")
            /\ NoCompilation
    /\ \A j \in 1..Len(glog) :
         glog[j].op = "read"
         => \E i \in 1..(j - 1) : glog[i].op = "binder" /\ glog[i].rc = 0
    /\ (GHas("read") /\ ~gout.manifest.exists)
         => (gstatus = "raised" /\ NoCompilation)

W21_GeneratorFailedWithManifest ==
    /\ GHas("binder")
    /\ glog[Len(glog)].rc /= 0
    /\ glog[Len(glog)].op = "binder"
    /\ gout.manifest.exists
    /\ Len(gout.manifest.lines) = 2
    /\ gstatus = "raised"

\* ---------------------------------------------------------------- C25
\* C25 as stated: a preinstall script that exits non-zero is the last thing the
\* run does: the run has raised, the output directory is not reset and the
\* generator is not invoked.
X25_FailedPreinstallStopsRun ==
    \A i \in 1..Len(glog) :
        (glog[i].op = "sh" /\ glog[i].rc /= 0)
        => /\ gstatus = "raised"
           /\ \A j \in (i + 1)..Len(glog) : glog[j].op \notin {"rmtree", "binder"}

\* ---------------------------------------------------------------- C26
IsDockerFlag(x) == x /= <<>> /\ StartsWith(x, docker_image_flag)

\* the original arguments without the subcommand, the --docker-image flag and
\* the flag's value
RECURSIVE OtherArguments(_, _)
OtherArguments(argv, i) ==
    IF i > Len(argv) THEN <<>>
    ELSE IF argv[i] = <<"dbuild">> THEN OtherArguments(argv, i + 1)
    ELSE IF argv[i] = docker_image_flag THEN OtherArguments(argv, i + 2)
    ELSE IF IsDockerFlag(argv[i]) THEN OtherArguments(argv, i + 1)
    ELSE <<argv[i]>> \o OtherArguments(argv, i + 1)

DockerRuns == SelectSeq(glog, LAMBDA e : e.op = "docker run")

\* the forwarded list without the four arguments run_in_docker always adds
ForwardedFromArgv(e) == SubSeq(e.arg, 1, Len(e.arg) - Len(docker_fixed_args))

\* C26 as stated: the list forwarded by run_in_docker contains lbuild and no
\* dbuild, neither the --docker-image flag nor its value, and every other
\* original argument once and in the original order.
X26_ForwardedArgumentsRewritten ==
    \A k \in 1..Len(DockerRuns) :
        LET forwarded == ForwardedFromArgv(DockerRuns[k]) IN
        /\ \E i \in 1..Len(forwarded) : forwarded[i] = <<"lbuild">>
        /\ \A i \in 1..Len(forwarded) :
             forwarded[i] /= <<"dbuild">> /\ ~IsDockerFlag(forwarded[i])
        /\ SelectSeq(forwarded, LAMBDA x : x /= <<"lbuild">>) = OtherArguments(gargs.argv, 1)

====
